---- MODULE Spec2Model ----
(***************************************************************************)
(* git-bin: a git working tree whose binary files are moved into a         *)
(* content-addressed side store (the binstore) and replaced by symbolic    *)
(* links.  The model follows src/git-bin.py: FilesystemBinstore (store     *)
(* initialisation, add_file, is_binstore_link) and GitBin (dispatch, add,  *)
(* reset, checkout_dashdash), run once per invocation by main().           *)
(* The modules utils, commands and git are imported by git-bin.py but are  *)
(* not part of the source at hand; so are the binstore methods has_file,   *)
(* has, get_binstore_filename and digest, which git-bin.py calls and does  *)
(* not define.  Their models follow the written specification.             *)
(***************************************************************************)
EXTENDS Integers, Sequences, FiniteSets, TLC

\* ------------------------------------------------------------------ bounds

\* File contents are 0..MaxContent; content 0 is text, the others binary.
MaxContent == 2
\* Number of actions (invocations and environment steps) in one behaviour.
MaxActions == 3
\* Symbolic links followed when a path is resolved, before giving up (ELOOP).
MaxHops == 2
\* The environment may make the n-th primitive command of an invocation
\* fail, for n in 1..MaxFailAt (0: none fails).
MaxFailAt == 4

\* ----------------------------------------------------------------- strings

\* A path string is a sequence of tokens; "/" is the separator.  Prefix
\* tests are on the sequence, as str.startswith is on the characters.
Join(a, b) == a \o <<"/">> \o b

StartsWith(s, prefix) ==
    /\ Len(prefix) <= Len(s)
    /\ SubSeq(s, 1, Len(prefix)) = prefix

NoPath == << >>

\* gitrepo.path, gitrepo.reponame and the value of git-bin.binstorebase
RepoPath == <<"work">>
RepoName == <<"repo">>
BaseDir == <<"base">>

\* self.localpath: <repo>/.git/binstore
LocalPath == Join(Join(RepoPath, <<".git">>), <<"binstore">>)

\* The one place a store directory can be: binstorebase/reponame
StoreRoot == Join(BaseDir, RepoName)

\* ---------------------------------------------------------------- contents

Contents == 0 .. MaxContent

\* utils.is_file_binary on the bytes of a file: a content sniff
IsBinaryContent(c) == c > 0

\* utils.md5_file: the digest of a file's bytes, as the name of a file.
\* Injective on Contents (collisions are outside the model).
Md5(c) == ToString(7 * c + 3)

Digests == { Md5(c) : c \in Contents }

\* ------------------------------------------------------------ permissions

S_IRUSR == 256
S_IWUSR == 128
S_IRGRP == 32
S_IWGRP == 16
S_IROTH == 4
S_IWOTH == 2

RECURSIVE BitAnd(_, _)
BitAnd(a, b) ==
    IF a = 0 \/ b = 0 THEN 0
    ELSE (IF a % 2 = 1 /\ b % 2 = 1 THEN 1 ELSE 0) + 2 * BitAnd(a \div 2, b \div 2)

RECURSIVE BitOr(_, _)
BitOr(a, b) ==
    IF a = 0 THEN b
    ELSE IF b = 0 THEN a
    ELSE (IF a % 2 = 1 \/ b % 2 = 1 THEN 1 ELSE 0) + 2 * BitOr(a \div 2, b \div 2)

\* A slip in the mode: the owner's write bit among the read bits
ReadOnlyMode_ownerWrites == BitOr(BitOr(BitOr(S_IRUSR, S_IWUSR), S_IRGRP), S_IROTH)

\* the mode add_file gives a stored object (line 80)
ReadOnlyMode == BitOr(BitOr(S_IRUSR, S_IRGRP), S_IROTH)

\* the mode of a file the user writes (rw-r--r--)
UserMode == BitOr(ReadOnlyMode, S_IWUSR)

Writable(mode) == BitAnd(mode, BitOr(BitOr(S_IWUSR, S_IWGRP), S_IWOTH)) # 0

\* ------------------------------------------------------------- filesystem

\* The working tree: a file f at the top, a directory d holding a file and
\* a directory e, which holds a file.
PathF == <<"f">>
PathD == <<"d">>
PathDA == Join(PathD, <<"a">>)
PathDE == Join(PathD, <<"e">>)
PathDEB == Join(PathDE, <<"b">>)

DirPaths == {PathD, PathDE}
FilePaths == {PathF, PathDA, PathDEB}
Paths == DirPaths \cup FilePaths

\* A fixed listing order for os.listdir
PathOrder == <<PathF, PathD, PathDA, PathDE, PathDEB>>

NoNode == [kind |-> "none", content |-> 0, mode |-> 0, target |-> NoPath]
FileNode(c, m) == [kind |-> "file", content |-> c, mode |-> m, target |-> NoPath]
LinkNode(t) == [kind |-> "link", content |-> 0, mode |-> 0, target |-> t]
DirNode == [kind |-> "dir", content |-> 0, mode |-> 0, target |-> NoPath]

NoLoc == [area |-> "none", name |-> NoPath]
TreeLoc(p) == [area |-> "tree", name |-> p]
StoreLoc(d) == [area |-> "store", name |-> <<d>>]

\* Whether the directory path string dirpath names the store directory:
\* it is the store root itself, or the alias link .git/binstore to it.
IsStoreDir(w, dirpath) ==
    /\ w.storeDir
    /\ \/ dirpath = StoreRoot
       \/ dirpath = LocalPath /\ w.alias = StoreRoot

\* The place a path string names, its last component not followed.
LocOf(w, t) ==
    IF t \in Paths THEN TreeLoc(t)
    ELSE IF Len(t) >= 3 /\ t[Len(t)] \in Digests /\ t[Len(t) - 1] = "/"
            /\ IsStoreDir(w, SubSeq(t, 1, Len(t) - 2))
    THEN StoreLoc(t[Len(t)])
    ELSE NoLoc

NodeAt(w, loc) ==
    IF loc.area = "tree" THEN w.tree[loc.name]
    ELSE IF loc.area = "store" THEN w.store[loc.name[1]]
    ELSE NoNode

\* os.lstat: the node a path string names
LNode(w, t) == NodeAt(w, LocOf(w, t))

\* The place a path string resolves to, symbolic links followed.
RECURSIVE ResolveHops(_, _, _)
ResolveHops(w, t, hops) ==
    LET n == LNode(w, t)
    IN  IF n.kind = "none" THEN NoLoc
        ELSE IF n.kind # "link" THEN LocOf(w, t)
        ELSE IF hops = 0 THEN NoLoc
        ELSE ResolveHops(w, n.target, hops - 1)

Resolve(w, t) == ResolveHops(w, t, MaxHops)

\* os.stat: the node a path string resolves to
Node(w, t) == NodeAt(w, Resolve(w, t))

PutNode(w, loc, n) ==
    IF loc.area = "tree" THEN [w EXCEPT !.tree[loc.name] = n]
    ELSE IF loc.area = "store" THEN [w EXCEPT !.store[loc.name[1]] = n]
    ELSE w

exists(w, t) == Node(w, t).kind # "none"
islink(w, t) == LNode(w, t).kind = "link"
isdir(w, t) == Node(w, t).kind = "dir"
readlink(w, t) == LNode(w, t).target

\* ------------------------------------------------------------------ state

VARIABLES
    tree,           \* working tree: path -> node
    store,          \* store directory: digest name -> node
    storeDir,       \* the store root directory exists
    alias,          \* target of the link .git/binstore, NoPath when absent
    tmp,            \* files under /tmp: set of [name, content]
    cfgBase,        \* git-bin.binstorebase, NoPath when absent
    cfgPath,        \* binstore.path, NoPath when absent
    index,          \* the git index: path -> entry
    head,           \* the last commit: path -> entry
    log,            \* what the last invocation did, in order
    outcome,        \* how the last invocation ended
    last,           \* the last action: [command, file]
    before,         \* the action before it, see Summary
    actions         \* number of actions taken

vars == <<tree, store, storeDir, alias, tmp, cfgBase, cfgPath, index, head,
          log, outcome, last, before, actions>>

\* The state one invocation works on.  selfPath is binstore.path (the
\* attribute), step counts the primitive commands run, failAt is the one
\* the environment makes fail, overwrite and replace are the platform's
\* behaviour of a move onto an existing file and of a copy onto a link.
World(failAt, overwrite, replace) ==
    [tree |-> tree, store |-> store, storeDir |-> storeDir, alias |-> alias,
     tmp |-> tmp, cfgPath |-> cfgPath, index |-> index, selfPath |-> NoPath,
     log |-> << >>, step |-> 0, failAt |-> failAt, overwrite |-> overwrite,
     replace |-> replace, err |-> "none"]

\* The state as an invocation that has constructed its binstore sees it.
Current == [World(0, FALSE, FALSE) EXCEPT !.selfPath = cfgPath]

Event(op, path, arg) == [op |-> op, path |-> path, arg |-> arg, ok |-> TRUE]

Record(w, ev) == [w EXCEPT !.log = Append(@, ev)]

Raise(w, e) == IF w.err = "none" THEN [w EXCEPT !.err = e] ELSE w

\* ------------------------------------------------------- the Repository

STATUS_STAGED == 1
STATUS_UNTRACKED == 2
STATUS_MODIFIED == 4
STATUS_TYPECHANGED == 8
STATUS_STAGED_MASK == STATUS_STAGED
STATUS_CHANGED_MASK == BitOr(BitOr(STATUS_UNTRACKED, STATUS_MODIFIED), STATUS_TYPECHANGED)

Statuses == 0 .. (2 * STATUS_TYPECHANGED - 1)

NoEntry == [kind |-> "none", content |-> 0, target |-> NoPath]
BlobEntry(c) == [kind |-> "blob", content |-> c, target |-> NoPath]
LinkEntry(t) == [kind |-> "link", content |-> 0, target |-> t]

\* What git records of a working-tree node: a blob, or a link by its target.
Snapshot(n) ==
    IF n.kind = "file" THEN BlobEntry(n.content)
    ELSE IF n.kind = "link" THEN LinkEntry(n.target)
    ELSE NoEntry

\* What git writes to the working tree for an entry.
Materialize(e) ==
    IF e.kind = "blob" THEN FileNode(e.content, UserMode)
    ELSE IF e.kind = "link" THEN LinkNode(e.target)
    ELSE NoNode

\* gitrepo.status(filename)
status(w, p) ==
    LET i == w.index[p]
        n == Snapshot(w.tree[p])
    IN  (IF i # head[p] THEN STATUS_STAGED ELSE 0)
      + (IF i.kind = "none" /\ n.kind # "none" THEN STATUS_UNTRACKED ELSE 0)
      + (IF i.kind # "none" /\ n.kind \in {"none", i.kind} /\ n # i
         THEN STATUS_MODIFIED ELSE 0)
      + (IF i.kind # "none" /\ n.kind \notin {"none", i.kind}
         THEN STATUS_TYPECHANGED ELSE 0)

\* ---------------------------------------------- commands (a step pipeline)

\* One primitive command: skipped once an error is raised; fails, without
\* effect, when it cannot be done (~can: StepError) or when the environment
\* fails it (EnvError).
Step(w, ev, can, done) ==
    IF w.err # "none" THEN w
    ELSE IF ~can \/ w.step + 1 = w.failAt
    THEN [w EXCEPT !.step = @ + 1,
                   !.err = IF can THEN "EnvError" ELSE "StepError",
                   !.log = Append(@, [ev EXCEPT !.ok = FALSE])]
    ELSE [done EXCEPT !.step = w.step + 1, !.log = Append(w.log, ev)]

\* cmd.MakeDirectoryCommand(path): create the directory if absent
MakeDirectoryCommand(w, path) ==
    Step(w, Event("mkdir", path, 0), path = StoreRoot,
         [w EXCEPT !.storeDir = TRUE])

\* cmd.LinkToFileCommand(linkpath, target): a new symbolic link
LinkToFileCommand(w, linkpath, target) ==
    IF linkpath = LocalPath
    THEN Step(w, Event("link", linkpath, 0), w.alias = NoPath,
              [w EXCEPT !.alias = target])
    ELSE Step(w, Event("link", linkpath, 0),
              LocOf(w, linkpath) # NoLoc /\ LNode(w, linkpath).kind = "none",
              PutNode(w, LocOf(w, linkpath), LinkNode(target)))

\* cmd.SafeMoveFileCommand(src, dst): rename src to dst.  Onto an existing
\* dst the platform overwrites it or leaves both as they are.
SafeMoveFileCommand(w, src, dst) ==
    Step(w, Event("move", src, 0),
         /\ LNode(w, src).kind \in {"file", "link"}
         /\ LocOf(w, dst) # NoLoc
         /\ LocOf(w, dst) # LocOf(w, src),
         IF LNode(w, dst).kind # "none" /\ ~w.overwrite THEN w
         ELSE PutNode(PutNode(w, LocOf(w, dst), LNode(w, src)),
                      LocOf(w, src), NoNode))

\* cmd.ChmodCommand(mode, path): chmod follows links
ChmodCommand(w, mode, path) ==
    Step(w, Event("chmod", path, mode), Node(w, path).kind = "file",
         PutNode(w, Resolve(w, path), [Node(w, path) EXCEPT !.mode = mode]))

\* gitrepo.add(filename): stage the node as it is (a link as a link)
GitAdd(w, p) ==
    [w EXCEPT !.index[p] = Snapshot(w.tree[p])]

\* cmd.GitAddCommand(gitrepo, filename)
GitAddCommand(w, p) ==
    Step(w, Event("stage", p, 0),
         p \in FilePaths /\ w.tree[p].kind \in {"file", "link"},
         GitAdd(w, p))

\* The name of a file directly under /tmp, NoPath for any other path
TmpName(dst) ==
    IF Len(dst) >= 3 /\ dst[1] = "tmp" /\ dst[2] = "/"
       /\ \A k \in 3 .. Len(dst) : dst[k] # "/"
    THEN SubSeq(dst, 3, Len(dst))
    ELSE NoPath

\* cmd.CopyFileCommand(src, dst): the bytes of src written to dst.  A dst
\* that is a link is replaced by a regular file or written through.
CopyFileCommand(w, src, dst) ==
    LET bytes == Node(w, src).content
        through == LNode(w, dst).kind = "file"
                   \/ (LNode(w, dst).kind = "link" /\ ~w.replace)
    IN  IF TmpName(dst) # NoPath
        THEN Step(w, Event("copy", dst, 0), Node(w, src).kind = "file",
                  [w EXCEPT !.tmp = @ \cup {[name |-> TmpName(dst), content |-> bytes]}])
        ELSE Step(w, Event("copy", dst, 0),
                  /\ Node(w, src).kind = "file"
                  /\ LocOf(w, dst) # NoLoc
                  /\ LNode(w, dst).kind # "dir"
                  /\ through => Node(w, dst).kind = "file",
                  IF through
                  THEN PutNode(w, Resolve(w, dst), [Node(w, dst) EXCEPT !.content = bytes])
                  ELSE PutNode(w, LocOf(w, dst), FileNode(bytes, UserMode)))

\* ------------------------------------------------------------------ utils

\* utils.expand_filenames: a name without glob characters is kept as it is
expand_filenames(filenames) == filenames

\* utils.is_file_binary(filename): the sniff of the bytes it reads; a
\* directory is let through to the directory branch of add.
is_file_binary(w, filename) ==
    IF Node(w, filename).kind = "dir" THEN TRUE
    ELSE IsBinaryContent(Node(w, filename).content)

\* utils.md5_file(filename): the digest of the bytes read through the path
md5_file(w, filename) == Md5(Node(w, filename).content)

\* ----------------------------------------------------- FilesystemBinstore

\* binstore.has_file(path): the path names a member of the store
has_file(w, t) == LocOf(w, t).area = "store" /\ LNode(w, t).kind # "none"

\* binstore.digest(filename)
digest(w, filename) == md5_file(w, filename)

\* binstore.has(filename): a link by its target, a file by its digest
has(w, filename) ==
    IF islink(w, filename) THEN has_file(w, readlink(w, filename))
    ELSE /\ Node(w, filename).kind = "file"
         /\ w.storeDir
         /\ w.store[digest(w, filename)].kind # "none"

\* binstore.get_binstore_filename(filename): the store-side path, read
\* from the link or composed of the store root and the digest
get_binstore_filename(w, filename) ==
    IF islink(w, filename) THEN readlink(w, filename)
    ELSE Join(w.selfPath, <<digest(w, filename)>>)

\* init without the test of git-bin.binstorebase
init_unchecked(w) ==
    LET path == Join(cfgBase, RepoName)
        w0 == [w EXCEPT !.selfPath = path]
        w1 == LinkToFileCommand(MakeDirectoryCommand(w0, path), LocalPath, path)
    IN  IF w1.err # "none" THEN w1
        ELSE Record([w1 EXCEPT !.cfgPath = path], Event("config_set", path, 0))

\* FilesystemBinstore.init (lines 56-68)
init(w) ==
    IF cfgBase = NoPath THEN Raise(w, "ConfigError")
    ELSE LET path == Join(cfgBase, RepoName)
             w0 == [w EXCEPT !.selfPath = path]
             w1 == LinkToFileCommand(MakeDirectoryCommand(w0, path), LocalPath, path)
         IN  IF w1.err # "none" THEN w1
             ELSE Record([w1 EXCEPT !.cfgPath = path], Event("config_set", path, 0))

\* __init__ that sets the store up whether or not binstore.path is set
FilesystemBinstore_always(w) ==
    LET w1 == init([w EXCEPT !.selfPath = w.cfgPath])
    IN  IF w1.err # "none" THEN w1
        ELSE Record(w1, Event("binstore", w1.selfPath, 0))

\* FilesystemBinstore.__init__ (lines 46-54)
FilesystemBinstore(w) ==
    LET w0 == [w EXCEPT !.selfPath = w.cfgPath]
        w1 == IF w0.selfPath = NoPath THEN init(w0) ELSE w0
    IN  IF w1.err # "none" THEN w1
        ELSE Record(w1, Event("binstore", w1.selfPath, 0))

\* A store file name that leaves the digest out
binstore_filename_fixed(d) == Join(LocalPath, <<Md5(0)>>)

\* binstore_filename of add_file (line 72)
binstore_filename(d) == Join(LocalPath, <<d>>)

\* add_file with the chmod ahead of the link
add_file_reordered(w, filename) ==
    LET target == binstore_filename(md5_file(w, filename))
        w0 == Record(w, Event("add_file", filename, Node(w, filename).content))
        w1 == SafeMoveFileCommand(w0, filename, target)
        w2 == ChmodCommand(w1, ReadOnlyMode, target)
        w3 == LinkToFileCommand(w2, filename, target)
    IN  GitAddCommand(w3, filename)

\* FilesystemBinstore.add_file (lines 70-84)
add_file(w, filename) ==
    LET target == binstore_filename(md5_file(w, filename))
        w0 == Record(w, Event("add_file", filename, Node(w, filename).content))
        w1 == SafeMoveFileCommand(w0, filename, target)
        w2 == LinkToFileCommand(w1, filename, target)
        w3 == ChmodCommand(w2, ReadOnlyMode, target)
    IN  GitAddCommand(w3, filename)

\* FilesystemBinstore.edit_file (lines 86-93): the stored object moved back
\* to the working path.  No handler of GitBin calls it.
edit_file(w, filename) ==
    SafeMoveFileCommand(w, readlink(w, filename), filename)

\* is_binstore_link without the test of the prefix
is_binstore_link_unprefixed(w, filename) ==
    IF ~islink(w, filename) THEN FALSE
    ELSE has_file(w, readlink(w, filename))

\* FilesystemBinstore.is_binstore_link (lines 95-103)
is_binstore_link(w, filename) ==
    IF ~islink(w, filename) THEN FALSE
    ELSE /\ StartsWith(readlink(w, filename), w.selfPath)
         /\ has_file(w, readlink(w, filename))

\* ----------------------------------------------------------------- GitBin

Parent(p) == IF Len(p) >= 3 THEN SubSeq(p, 1, Len(p) - 2) ELSE NoPath

\* os.listdir(root), as the paths os.path.join(root, name)
Listing(w, root) ==
    SelectSeq(PathOrder, LAMBDA p : Parent(p) = root /\ w.tree[p].kind # "none")

\* The directories os.walk(top) visits, top-down
WalkRoots(w, top) ==
    SelectSeq(PathOrder, LAMBDA p : /\ w.tree[p].kind = "dir"
                                    /\ (p = top \/ StartsWith(p, top \o <<"/">>)))

RECURSIVE add(_, _)
RECURSIVE add_walk(_, _)

\* The loop body without the test of the content: every file is inserted
add_filename_unsniffed(w, filename) ==
    IF ~exists(w, filename) THEN w
    ELSE IF islink(w, filename) /\ ~has_file(w, readlink(w, filename)) THEN w
    ELSE IF is_binstore_link(w, filename) THEN w
    ELSE IF isdir(w, filename) THEN add_walk(w, WalkRoots(w, filename))
    ELSE add_file(w, filename)

\* The body of the loop of GitBin.add for one filename (lines 127-160)
add_filename(w, filename) ==
    IF ~exists(w, filename) THEN w
    ELSE IF islink(w, filename) /\ ~has_file(w, readlink(w, filename)) THEN w
    ELSE IF ~is_file_binary(w, filename)
    THEN Record(GitAdd(w, filename), Event("git_add", filename, 0))
    ELSE IF is_binstore_link(w, filename) THEN w
    ELSE IF isdir(w, filename) THEN add_walk(w, WalkRoots(w, filename))
    ELSE add_file(w, filename)

\* GitBin.add (lines 121-160)
add(w, filenames) ==
    IF filenames = << >> \/ w.err # "none" THEN w
    ELSE add(add_filename(w, Head(expand_filenames(filenames))),
             Tail(expand_filenames(filenames)))

\* The loop over os.walk(filename) (lines 152-156)
add_walk(w, roots) ==
    IF roots = << >> \/ w.err # "none" THEN w
    ELSE LET here == Listing(w, Head(roots))
             dirs == SelectSeq(here, LAMBDA p : isdir(w, p))
             files == SelectSeq(here, LAMBDA p : ~isdir(w, p))
             w1 == IF Len(dirs) # 0 THEN add(w, dirs) ELSE w
             w2 == IF Len(files) # 0 THEN add(w1, files) ELSE w1
         IN  add_walk(w2, Tail(roots))

\* gitrepo.unstage(filename): the index entry back to the last commit's
unstage(w, p) ==
    Record([w EXCEPT !.index[p] = head[p]], Event("unstage", p, 0))

\* gitrepo.restore(filename): the working path back to its committed
\* content; an error for a path git does not track
restore(w, p) ==
    IF w.err # "none" THEN w
    ELSE IF head[p].kind = "none"
    THEN Raise(Record(w, [Event("restore", p, 0) EXCEPT !.ok = FALSE]), "GitError")
    ELSE Record([w EXCEPT !.tree[p] = Materialize(head[p])], Event("restore", p, 0))

\* The test of line 198 with "not" applied to the status alone
reset_accepts_misparsed(st) == st # 0

\* Whether reset acts on a path of this status (line 198)
reset_accepts(st) == BitAnd(st, STATUS_STAGED_MASK) = STATUS_STAGED

\* Whether reset copies the stored bytes back (lines 211-213)
reset_copies(w, filename, new_status) ==
    /\ has(w, filename)
    /\ \/ BitAnd(new_status, STATUS_UNTRACKED) # 0
       \/ BitAnd(new_status, STATUS_MODIFIED) # 0

\* The loop body deciding the copy on the status read before the unstage
reset_filename_stale(w, filename) ==
    LET st == status(w, filename)
        w0 == Record(w, Event("status", filename, st))
        w1 == unstage(w0, filename)
        w2 == Record(w1, Event("status", filename, status(w1, filename)))
    IN  IF ~reset_accepts(st) THEN w0
        ELSE IF reset_copies(w2, filename, st)
        THEN CopyFileCommand(w2, get_binstore_filename(w2, filename), filename)
        ELSE w2

\* The body of the loop of GitBin.reset for one filename (lines 197-220)
reset_filename(w, filename) ==
    LET st == status(w, filename)
        w0 == Record(w, Event("status", filename, st))
        w1 == unstage(w0, filename)
        new_status == status(w1, filename)
        w2 == Record(w1, Event("status", filename, new_status))
    IN  IF ~reset_accepts(st) THEN w0
        ELSE IF reset_copies(w2, filename, new_status)
        THEN CopyFileCommand(w2, get_binstore_filename(w2, filename), filename)
        ELSE w2

\* GitBin.reset (lines 191-220)
RECURSIVE reset(_, _)
reset(w, filenames) ==
    IF filenames = << >> \/ w.err # "none" THEN w
    ELSE reset(reset_filename(w, Head(expand_filenames(filenames))),
               Tail(expand_filenames(filenames)))

\* Whether checkout_dashdash acts on a path of this status (lines 230-237)
checkout_accepts(st) ==
    /\ ~(BitAnd(st, STATUS_STAGED_MASK) = STATUS_STAGED)
    /\ BitAnd(st, STATUS_CHANGED_MASK) # 0

\* Whether checkout_dashdash saves a copy first (line 247)
checkout_saves(w, filename, st) ==
    BitAnd(st, STATUS_TYPECHANGED) # 0 /\ ~has(w, filename)

\* justincase_filename (line 248)
justincase_filename(w, filename) ==
    Join(<<"tmp">>, filename \o <<".", digest(w, filename), ".justincase">>)

\* The loop body without the just-in-case copy
checkout_filename_unsaved(w, filename) ==
    LET st == status(w, filename)
        w0 == Record(w, Event("status", filename, st))
    IN  IF ~checkout_accepts(st) THEN w0 ELSE restore(w0, filename)

\* The body of the loop of GitBin.checkout_dashdash (lines 229-254)
checkout_filename(w, filename) ==
    LET st == status(w, filename)
        w0 == Record(w, Event("status", filename, st))
        ws == Record(w0, Event("justincase", filename, Node(w0, filename).content))
        w1 == IF ~checkout_saves(w0, filename, st) THEN w0
              ELSE IF Node(w0, filename).kind # "file" THEN Raise(ws, "IOError")
              ELSE CopyFileCommand(ws, get_binstore_filename(ws, filename),
                                   justincase_filename(ws, filename))
    IN  IF ~checkout_accepts(st) THEN w0 ELSE restore(w1, filename)

\* GitBin.checkout_dashdash (lines 223-254)
RECURSIVE checkout_dashdash(_, _)
checkout_dashdash(w, filenames) ==
    IF filenames = << >> \/ w.err # "none" THEN w
    ELSE checkout_dashdash(checkout_filename(w, Head(expand_filenames(filenames))),
                           Tail(expand_filenames(filenames)))

\* The command names the argument parser lets through (line 260)
Commands == {"add", "edit", "reset", "checkout_dashdash"}

\* Those of them that are attributes of a GitBin object (hasattr, line 117)
Handlers == {"add", "reset", "checkout_dashdash"}

\* GitBin.dispatch_command (lines 116-119)
dispatch_command(w, name, files) ==
    IF name \notin Handlers THEN Raise(w, "UnknownCommand")
    ELSE IF name = "add" THEN add(w, files)
    ELSE IF name = "reset" THEN reset(w, files)
    ELSE checkout_dashdash(w, files)

\* main (lines 288-292): the binstore is constructed, then the command runs
main(w, command, files) ==
    LET w1 == FilesystemBinstore(w)
    IN  IF w1.err # "none" THEN w1 ELSE dispatch_command(w1, command, files)

\* ---------------------------------------------------------------- actions

\* A repository not yet set up for git-bin, with three plain files.
FreshTree(cf) ==
    [p \in Paths |->
       IF p \in DirPaths THEN DirNode
       ELSE IF p = PathF THEN FileNode(cf, UserMode)
       ELSE IF p = PathDA THEN FileNode(0, UserMode)
       ELSE FileNode(MaxContent, UserMode)]

InitFresh ==
    /\ \E cf \in Contents : tree = FreshTree(cf)
    /\ store = [d \in Digests |-> NoNode]
    /\ storeDir = FALSE
    /\ alias = NoPath
    /\ cfgBase \in {NoPath, BaseDir}
    /\ cfgPath = NoPath
    /\ index = [p \in FilePaths |-> NoEntry]
    /\ head = [p \in FilePaths |-> NoEntry]

\* The same repository after "git-bin add f" of a binary f and a commit:
\* the state Add and Commit lead to from InitFresh.
InitTracked ==
    /\ \E cf \in 1 .. MaxContent :
         /\ tree = [FreshTree(cf) EXCEPT ![PathF] = LinkNode(Join(LocalPath, <<Md5(cf)>>))]
         /\ store = [d \in Digests |->
                       IF d = Md5(cf) THEN FileNode(cf, ReadOnlyMode) ELSE NoNode]
         /\ index = [p \in FilePaths |->
                       IF p = PathF THEN LinkEntry(Join(LocalPath, <<Md5(cf)>>)) ELSE NoEntry]
    /\ head = index
    /\ storeDir = TRUE
    /\ alias = StoreRoot
    /\ cfgBase = BaseDir
    /\ cfgPath = StoreRoot

\* The fresh repository after "git-bin add f" of a text f and a commit: f
\* is committed as a plain blob.
InitPlain ==
    /\ tree = FreshTree(0)
    /\ store = [d \in Digests |-> NoNode]
    /\ index = [p \in FilePaths |->
                  IF p = PathF THEN BlobEntry(0) ELSE NoEntry]
    /\ head = index
    /\ storeDir = TRUE
    /\ alias = StoreRoot
    /\ cfgBase = BaseDir
    /\ cfgPath = StoreRoot

Init ==
    /\ InitFresh \/ InitTracked \/ InitPlain
    /\ tmp = {}
    /\ log = << >>
    /\ outcome = "none"
    /\ last = [command |-> "none", file |-> NoPath]
    /\ before = [command |-> "none", file |-> NoPath, outcome |-> "none",
                 bytes |-> -1, configured |-> FALSE]
    /\ actions = 0

\* The paths given on the command line
ArgPaths == {PathF, PathD}

\* The events of a log with the given op and path
Events(lg, op, path) ==
    { k \in 1 .. Len(lg) : lg[k].op = op /\ lg[k].path = path }

\* The bytes a run of add has inserted for its file argument, every step
\* done; -1 when the last action was no such run
InsertedBytes ==
    IF /\ last.command = "add"
       /\ outcome = "none"
       /\ Events(log, "add_file", last.file) # {}
    THEN log[CHOOSE k \in Events(log, "add_file", last.file) : TRUE].arg
    ELSE -1

\* What the next state remembers of the last action
Summary ==
    [command |-> last.command, file |-> last.file, outcome |-> outcome,
     bytes |-> InsertedBytes,
     configured |-> Events(log, "config_set", StoreRoot) # {}]

\* A step that is one run of the program
IsRun == last.command \in Commands

\* One run of the program: git-bin <command> <file>
Invoke(command, file) ==
    /\ actions < MaxActions
    /\ \E failAt \in 0 .. MaxFailAt, overwrite \in BOOLEAN, replace \in BOOLEAN :
         \E w \in {main(World(failAt, overwrite, replace), command, <<file>>)} :
             /\ tree' = w.tree
             /\ store' = w.store
             /\ storeDir' = w.storeDir
             /\ alias' = w.alias
             /\ tmp' = w.tmp
             /\ cfgPath' = w.cfgPath
             /\ index' = w.index
             /\ log' = w.log
             /\ outcome' = w.err
    /\ last' = [command |-> command, file |-> file]
    /\ before' = Summary
    /\ actions' = actions + 1
    /\ UNCHANGED <<cfgBase, head>>

Add == \E file \in ArgPaths : Invoke("add", file)

Reset == Invoke("reset", PathF)

Checkout == Invoke("checkout_dashdash", PathF)

Edit == Invoke("edit", PathF)

\* The user's own steps: they are not the program's, and leave no log.
User(what, file) ==
    /\ actions < MaxActions
    /\ log' = << >>
    /\ outcome' = "none"
    /\ last' = [command |-> what, file |-> file]
    /\ before' = Summary
    /\ actions' = actions + 1

\* git commit: the index becomes the last commit
Commit ==
    /\ head # index
    /\ head' = index
    /\ User("commit", NoPath)
    /\ UNCHANGED <<tree, store, storeDir, alias, tmp, cfgBase, cfgPath, index>>

\* The user writes a regular file at f, in place of whatever is there
UserWrite ==
    /\ \E c \in Contents : tree' = [tree EXCEPT ![PathF] = FileNode(c, UserMode)]
    /\ User("write", PathF)
    /\ UNCHANGED <<store, storeDir, alias, tmp, cfgBase, cfgPath, index, head>>

\* Link targets a user may craft: an object path under the store root or
\* under the alias, under a directory whose name the store root prefixes,
\* outside, and a file and a directory of the working tree
CraftedTargets ==
    { Join(StoreRoot, <<Md5(1)>>), Join(LocalPath, <<Md5(1)>>),
      Join(StoreRoot \o <<"2">>, <<Md5(1)>>), Join(<<"elsewhere">>, <<Md5(1)>>),
      PathDEB, PathDE }

\* The user makes f a symbolic link
UserLink ==
    /\ \E t \in CraftedTargets : tree' = [tree EXCEPT ![PathF] = LinkNode(t)]
    /\ User("link", PathF)
    /\ UNCHANGED <<store, storeDir, alias, tmp, cfgBase, cfgPath, index, head>>

Next == Add \/ Reset \/ Checkout \/ Edit \/ Commit \/ UserWrite \/ UserLink

Spec == Init /\ [][Next]_vars

\* ----------------------------------------------------------------- claims

\* A step that is one run of the program
RunStep == actions' = actions + 1 /\ last'.command \in Commands

\* The ops of the events of a log
Ops(lg) == { lg[k].op : k \in 1 .. Len(lg) }

\* C1: once add([f]) has inserted a binary file f (f is now a link into
\* the store), a second add([f]) is a no-op: add_file is not invoked again,
\* the store entries, the working path and the index are unchanged, and
\* the Repository is not asked to stage f again.
C1_AddTwiceIsNoOp ==
    [][ ( /\ InsertedBytes >= 0
          /\ last.file = PathF
          /\ RunStep
          /\ last' = [command |-> "add", file |-> PathF] )
        => /\ Events(log', "add_file", PathF) = {}
           /\ Events(log', "stage", PathF) = {}
           /\ Events(log', "git_add", PathF) = {}
           /\ UNCHANGED <<store, tree, index>> ]_vars

\* C2: add([f]) of a binary file with bytes B, then reset([f]), both
\* without error: the content read at f is B, the stored object for
\* digest(B) holds B, and the Repository does not report f as staged.
C2_AddResetRoundTrip ==
    ( /\ before.command = "add"
      /\ before.file = PathF
      /\ before.bytes >= 0
      /\ last = [command |-> "reset", file |-> PathF]
      /\ outcome = "none" )
    => /\ Node(Current, PathF).kind = "file"
       /\ Node(Current, PathF).content = before.bytes
       /\ store[Md5(before.bytes)].kind = "file"
       /\ store[Md5(before.bytes)].content = before.bytes
       /\ BitAnd(status(Current, PathF), STATUS_STAGED) = 0

\* C2's case: the reset has unstaged f and copied the stored bytes back.
C2_Witness ==
    /\ before.command = "add"
    /\ before.file = PathF
    /\ before.bytes >= 0
    /\ last = [command |-> "reset", file |-> PathF]
    /\ outcome = "none"
    /\ Events(log, "unstage", PathF) # {}
    /\ Events(log, "copy", PathF) # {}

\* C3: after add([f]) has inserted a binary file with bytes B, f is a
\* symbolic link whose target is storeRoot/<digest(B)>, storeRoot being the
\* value of binstore.path; the target holds B; is_binstore_link(f) is true;
\* and the Repository reports f as staged.
C3_InsertPostcondition ==
    (InsertedBytes >= 0 /\ last.file = PathF)
    => /\ tree[PathF] = LinkNode(Join(cfgPath, <<Md5(InsertedBytes)>>))
       /\ Node(Current, PathF).kind = "file"
       /\ Node(Current, PathF).content = InsertedBytes
       /\ is_binstore_link(Current, PathF)
       /\ BitAnd(status(Current, PathF), STATUS_STAGED) # 0

StoreMember(t) ==
    \E d \in Digests :
        /\ storeDir
        /\ store[d].kind # "none"
        /\ \/ t = StoreRoot \o <<"/", d>>
           \/ alias = StoreRoot /\ t = LocalPath \o <<"/", d>>

\* C5: is_binstore_link(p) is true if and only if p is a symbolic link,
\* the target string is prefixed by the store root, and the target is a
\* member of the store; so it is false for a regular file, for a link to
\* outside the store root, and for a link to a non-member path under it.
C5_IsStoreLinkIff ==
    cfgPath # NoPath
    => \A p \in FilePaths :
         /\ is_binstore_link(Current, p)
              <=> ( /\ tree[p].kind = "link"
                    /\ StartsWith(tree[p].target, cfgPath)
                    /\ StoreMember(tree[p].target) )
         /\ tree[p].kind = "file" => ~is_binstore_link(Current, p)
         /\ (tree[p].kind = "link" /\ ~StartsWith(tree[p].target, cfgPath))
              => ~is_binstore_link(Current, p)
         /\ (tree[p].kind = "link" /\ ~StoreMember(tree[p].target))
              => ~is_binstore_link(Current, p)

\* C5's case: a link for which is_binstore_link is true.
C5_Witness ==
    /\ cfgPath # NoPath
    /\ tree[PathF].kind = "link"
    /\ is_binstore_link(Current, PathF)

\* The status a run of reset or checkout_dashdash saw first
FirstStatus ==
    IF "status" \in Ops(log)
    THEN log[CHOOSE k \in 1 .. Len(log) :
               /\ log[k].op = "status"
               /\ \A j \in 1 .. (k - 1) : log[j].op # "status"].arg
    ELSE -1

\* C6: reset does nothing to a path whose status is not staged,
\* checkout_dashdash does nothing to a path whose status is staged, no
\* status is acted on by both, and every status with a staged, modified,
\* type-changed or untracked bit is acted on by exactly one of them.
C6_DisjointAcceptance ==
    /\ \A st \in Statuses :
         /\ ~(reset_accepts(st) /\ checkout_accepts(st))
         /\ st # 0 => (reset_accepts(st) \/ checkout_accepts(st))
         /\ BitAnd(st, STATUS_STAGED) = 0 => ~reset_accepts(st)
         /\ BitAnd(st, STATUS_STAGED) # 0 => ~checkout_accepts(st)
    /\ ( /\ last.command = "reset"
         /\ FirstStatus >= 0
         /\ BitAnd(FirstStatus, STATUS_STAGED) = 0 )
       => Ops(log) \cap {"unstage", "copy"} = {}
    /\ ( /\ last.command = "checkout_dashdash"
         /\ FirstStatus >= 0
         /\ BitAnd(FirstStatus, STATUS_STAGED) # 0 )
       => Ops(log) \cap {"justincase", "copy", "restore"} = {}
    /\ ( /\ last.command = "reset"
         /\ outcome = "none"
         /\ FirstStatus >= 0
         /\ BitAnd(FirstStatus, STATUS_STAGED) # 0 )
       => "unstage" \in Ops(log)
    /\ ( /\ last.command = "checkout_dashdash"
         /\ outcome = "none"
         /\ FirstStatus > 0
         /\ BitAnd(FirstStatus, STATUS_STAGED) = 0 )
       => "restore" \in Ops(log)

\* C6's case: reset has met a path that is changed and not staged, and has
\* left it alone.
C6_Witness ==
    /\ last.command = "reset"
    /\ outcome = "none"
    /\ FirstStatus > 0
    /\ BitAnd(FirstStatus, STATUS_STAGED) = 0
    /\ "unstage" \notin Ops(log)

\* C7: when checkout_dashdash meets a type-changed path whose content
\* digest is not in the store, and the environment fails no step, a
\* just-in-case copy is written, then the path is restored, and the path
\* is then as last committed.
C7_BackupThenRestore ==
    ( /\ last.command = "checkout_dashdash"
      /\ "justincase" \in Ops(log)
      /\ outcome # "EnvError" )
    => /\ outcome = "none"
       /\ \E c \in 1 .. Len(log), r \in 1 .. Len(log) :
            /\ c < r
            /\ log[c].op = "copy" /\ log[c].ok
            /\ log[r].op = "restore" /\ log[r].ok
       /\ tree[PathF] = Materialize(head[PathF])

\* C8: a run that ends with the unknown-command error has changed
\* nothing: the store directory, the alias link, binstore.path, the working
\* tree and the index are as before the run.
C8_UnknownCommandChangesNothing ==
    [][ (RunStep /\ outcome' = "UnknownCommand")
        => UNCHANGED <<tree, store, storeDir, alias, tmp, cfgPath, index, head>> ]_vars

\* C9: with neither git-bin.binstorebase nor binstore.path configured, a
\* run ends with the configuration error, no command handler runs, and
\* nothing is created or written.
C9_NoBaseIsFatal ==
    [][ (RunStep /\ cfgBase = NoPath /\ cfgPath = NoPath)
        => /\ outcome' = "ConfigError"
           /\ log' = << >>
           /\ UNCHANGED <<tree, store, storeDir, alias, tmp, cfgPath, index, head>> ]_vars

\* C9's case: a run in a repository with no base directory configured.
C9_Witness ==
    /\ cfgBase = NoPath
    /\ cfgPath = NoPath
    /\ last.command \in Commands
    /\ outcome = "ConfigError"

\* The events of store initialisation
InitOps == {"mkdir", "config_set"}

\* C10: the first construction of the store creates the store root, then
\* the alias link, and records binstore.path = binstorebase/reponame only
\* after both were created; a construction with binstore.path set creates
\* nothing, writes no configuration, and uses the recorded path.
C10_InitOnce ==
    [][ RunStep
        => /\ (cfgPath = NoPath /\ cfgPath' # NoPath)
              => /\ cfgPath' = Join(cfgBase, RepoName)
                 /\ storeDir'
                 /\ alias' = cfgPath'
                 /\ \E m \in 1 .. Len(log'), l \in 1 .. Len(log'), c \in 1 .. Len(log') :
                      /\ m < l /\ l < c
                      /\ log'[m] = Event("mkdir", cfgPath', 0)
                      /\ log'[l] = Event("link", LocalPath, 0)
                      /\ log'[c] = Event("config_set", cfgPath', 0)
           /\ (cfgPath = NoPath /\ cfgBase # NoPath /\ outcome' \notin {"EnvError", "StepError"})
              => cfgPath' = Join(cfgBase, RepoName)
           /\ cfgPath # NoPath
              => /\ UNCHANGED <<storeDir, alias, cfgPath>>
                 /\ Ops(log') \cap InitOps = {}
                 /\ Events(log', "link", LocalPath) = {}
                 /\ log'[1] = Event("binstore", cfgPath, 0) ]_vars

\* C10's case: a run that set the store up is followed by another run,
\* which finds binstore.path set.
C10_Witness ==
    /\ before.command \in Commands
    /\ before.configured
    /\ last.command \in Commands
    /\ cfgPath = StoreRoot
    /\ Ops(log) \cap InitOps = {}
    /\ log[1] = Event("binstore", cfgPath, 0)

\* A run of add on f whose binstore was constructed, so that the handler ran
AddRunOnF ==
    /\ RunStep
    /\ last' = [command |-> "add", file |-> PathF]
    /\ "binstore" \in Ops(log')

\* C11: add on an existing path that is no link and whose content is not
\* binary stages it with the Repository's add exactly once and stops: the
\* store is as before, the working file is neither moved nor replaced, and
\* add_file is not called.
C11_TextFileIsPlainAdd ==
    [][ ( /\ AddRunOnF
          /\ tree[PathF].kind = "file"
          /\ ~IsBinaryContent(tree[PathF].content) )
        => /\ outcome' = "none"
           /\ Cardinality(Events(log', "git_add", PathF)) = 1
           /\ index'[PathF] = Snapshot(tree[PathF])
           /\ Ops(log') \cap {"add_file", "move", "link", "chmod", "stage"}
                \subseteq (IF cfgPath = NoPath THEN {"link"} ELSE {})
           /\ Events(log', "link", PathF) = {}
           /\ UNCHANGED <<store, tree>> ]_vars

\* C11's case: add has met a text file at f and has staged it.
C11_Witness ==
    /\ last = [command |-> "add", file |-> PathF]
    /\ outcome = "none"
    /\ tree[PathF].kind = "file"
    /\ ~IsBinaryContent(tree[PathF].content)
    /\ Events(log, "git_add", PathF) # {}
    /\ index[PathF] = Snapshot(tree[PathF])

\* C12: add on a path that is a symbolic link whose target is no member of
\* the store asks the Repository to add the path and stops: the link is
\* not followed and the store and the working tree are as before.
C12_PlainLinkIsGitAdded ==
    [][ ( /\ AddRunOnF
          /\ tree[PathF].kind = "link"
          /\ exists(Current, PathF)
          /\ ~has_file(Current, tree[PathF].target) )
        => /\ Events(log', "git_add", PathF) # {}
           /\ index'[PathF] = Snapshot(tree[PathF])
           /\ UNCHANGED <<store, tree>> ]_vars

\* C13: no step removes, moves away, overwrites or rewrites a stored
\* object: every object of the store is still there after the step, a
\* regular file whose bytes hash to its name.
C13_StoreEntriesImmutable ==
    [][ \A d \in Digests :
          store[d].kind = "file"
          => /\ storeDir'
             /\ store'[d].kind = "file"
             /\ store'[d].content = store[d].content
             /\ Md5(store'[d].content) = d ]_vars

\* The steps of an insert, in the order claimed
InsertSteps == <<"move", "link", "chmod", "stage">>

\* The number of steps the insert begun at log[k] has run, failed one included
StepsRun(k) ==
    IF Len(log) - k < Len(InsertSteps) THEN Len(log) - k ELSE Len(InsertSteps)

\* C14: the steps of an insert run in the order move, link, chmod, stage;
\* a step that fails is the last thing the run does and the run ends with
\* its error; the steps before it are not undone: the object stays in the
\* store, the link stays at the path, and an insert ends short of its four
\* steps only by a failed step.
C14_InsertPipeline ==
    last.command = "add"
    => \A k \in 1 .. Len(log) :
         log[k].op = "add_file"
         => /\ \A j \in 1 .. StepsRun(k) :
                 /\ log[k + j].op = InsertSteps[j]
                 /\ ~log[k + j].ok => (Len(log) = k + j /\ outcome # "none")
            /\ StepsRun(k) < Len(InsertSteps)
                 => (StepsRun(k) > 0 /\ ~log[Len(log)].ok)
            /\ (~log[Len(log)].ok /\ Len(log) - k \in 2 .. Len(InsertSteps))
                 => store[Md5(log[k].arg)].kind # "none"
            /\ (~log[Len(log)].ok /\ Len(log) - k \in 3 .. Len(InsertSteps))
                 => tree[log[k].path]
                      = LinkNode(binstore_filename(Md5(log[k].arg)))

\* C14's case: an insert whose move was done and whose link step failed;
\* the object is in the store and the run ended with the error.
C14_Witness ==
    /\ last.command = "add"
    /\ outcome # "none"
    /\ \E k \in 1 .. Len(log) :
         /\ log[k].op = "add_file"
         /\ Len(log) = k + 2
         /\ log[k + 1].op = "move" /\ log[k + 1].ok
         /\ log[k + 2].op = "link" /\ ~log[k + 2].ok
         /\ store[Md5(log[k].arg)].kind = "file"

\* The statuses a run has read, in order
StatusesRead(lg) == SelectSeq(lg, LAMBDA e : e.op = "status")

\* The state with f unstaged
Unstaged == [Current EXCEPT !.index[PathF] = head[PathF]]

\* C15: for a staged path reset unstages, then reads the status again; the
\* stored bytes are copied over the working path if and only if the path
\* is binstore-tracked and the status read after the unstage shows
\* untracked or modified; for a path that is not binstore-tracked the
\* working tree and the store are untouched and only the index changes.
C15_ResetUsesFreshStatus ==
    [][ ( /\ RunStep
          /\ last' = [command |-> "reset", file |-> PathF]
          /\ "unstage" \in Ops(log') )
        => /\ Len(StatusesRead(log')) = 2
           /\ StatusesRead(log')[1].arg = status(Current, PathF)
           /\ StatusesRead(log')[2].arg = status(Unstaged, PathF)
           /\ \E u \in Events(log', "unstage", PathF) :
                /\ log'[u - 1] = StatusesRead(log')[1]
                /\ log'[u + 1] = StatusesRead(log')[2]
                /\ Events(log', "copy", PathF) \subseteq {u + 2}
           /\ Events(log', "copy", PathF) # {}
                <=> /\ has(Current, PathF)
                    /\ BitAnd(status(Unstaged, PathF),
                              BitOr(STATUS_UNTRACKED, STATUS_MODIFIED)) # 0
           /\ index'[PathF] = head[PathF]
           /\ ~has(Current, PathF) => UNCHANGED <<tree, store>> ]_vars

\* C15's case: a reset whose copy was decided by the status after the
\* unstage, the status before it showing neither untracked nor modified.
C15_Witness ==
    /\ last = [command |-> "reset", file |-> PathF]
    /\ outcome = "none"
    /\ Len(StatusesRead(log)) = 2
    /\ BitAnd(StatusesRead(log)[1].arg, BitOr(STATUS_UNTRACKED, STATUS_MODIFIED)) = 0
    /\ BitAnd(StatusesRead(log)[2].arg, BitOr(STATUS_UNTRACKED, STATUS_MODIFIED)) # 0
    /\ Events(log, "copy", PathF) # {}

\* Where a run acted on a file: a Repository add or a store insertion of it
ActsOn(lg, p) == Events(lg, "git_add", p) \cup Events(lg, "add_file", p)

\* C16: in a run of add on the directory d, every Repository add or store
\* insertion of a file inside the subdirectory d/e comes before any add or
\* insertion of a file that sits directly in d.
C16_SubdirsBeforeFiles ==
    last = [command |-> "add", file |-> PathD]
    => \A i \in ActsOn(log, PathDEB), j \in ActsOn(log, PathDA) : i < j

\* C17: in a run of add on the directory d no file of the tree is acted
\* on twice, and in a run that ends without error every file is acted on.
C17_EachFileOnce ==
    last = [command |-> "add", file |-> PathD]
    => \A p \in {PathDA, PathDEB} :
         /\ Cardinality(ActsOn(log, p)) <= 1
         /\ (outcome = "none" /\ "binstore" \in Ops(log))
              => Cardinality(ActsOn(log, p)) = 1

\* C18: when an insert of a file with bytes B stops at a failed step, B is
\* still held by a regular file at the working path or by the store object
\* named by the digest of B.
C18_PartialInsertKeepsBytes ==
    last.command = "add"
    => \A k \in 1 .. Len(log) :
         ( /\ log[k].op = "add_file"
           /\ Len(log) - k \in 1 .. Len(InsertSteps)
           /\ ~log[Len(log)].ok )
         => \/ /\ tree[log[k].path].kind = "file"
               /\ tree[log[k].path].content = log[k].arg
            \/ /\ storeDir
               /\ store[Md5(log[k].arg)].kind = "file"
               /\ store[Md5(log[k].arg)].content = log[k].arg

\* C19: when checkout_dashdash restores a type-changed path whose content
\* digest is not in the store, the bytes the working path held before the
\* restore are the bytes of the just-in-case file written for it, and so
\* exist after the restore.
C19_BackupHoldsLocalBytes ==
    [][ ( /\ RunStep
          /\ last' = [command |-> "checkout_dashdash", file |-> PathF]
          /\ BitAnd(status(Current, PathF), STATUS_TYPECHANGED) # 0
          /\ ~has(Current, PathF)
          /\ \E r \in Events(log', "restore", PathF) : log'[r].ok )
        => /\ Node(Current, PathF).kind = "file"
           /\ [name |-> TmpName(justincase_filename(Current, PathF)),
               content |-> Node(Current, PathF).content] \in tmp'
           /\ \E c \in 1 .. Len(log'), r \in Events(log', "restore", PathF) :
                /\ c < r
                /\ log'[c] = Event("copy", justincase_filename(Current, PathF), 0) ]_vars

\* C19's case: a type-changed path whose content is not in the store has
\* been restored to its committed state, a just-in-case file written.
C19_Witness ==
    /\ last = [command |-> "checkout_dashdash", file |-> PathF]
    /\ outcome = "none"
    /\ "justincase" \in Ops(log)
    /\ \E r \in Events(log, "restore", PathF) : log[r].ok
    /\ tree[PathF] = Materialize(head[PathF])
    /\ tmp # {}

\* C20: each command name the argument parser accepts is dispatched to a
\* handler: no run of an accepted command ends with the unknown-command
\* error.
C20_AcceptedCommandsHaveHandlers ==
    /\ Commands \subseteq Handlers
    /\ last.command \in Commands => outcome # "UnknownCommand"

====
